---- MODULE Spec2Model ----
(***************************************************************************)
(* Page-replacement simulator (src/src/App.jsx): the reference generator,  *)
(* the FIFO / LRU / OPT trace builders and the CacheSim playback           *)
(* controller.  App.jsx holds the component twice: lines 1-355 (repeated   *)
(* with comments at 357-733), called draft 1 here, and lines 734-1225,     *)
(* called draft 3, whose LRU and OPT builders and whose handlers differ.   *)
(*                                                                         *)
(* JavaScript values: a page id is a string of one digit, `null` is the    *)
(* string "null", a page-valued `undefined` the string "undefined".        *)
(* Array indexes are kept 0-based as in the source; At(s, i) reads s[i].   *)
(***************************************************************************)
EXTENDS Integers, Sequences, FiniteSets, TLC

VARIABLES
    pc,           \* "mounted" / "unmounted" (controller); "call" / "return" (builder calls)
    draft,        \* which CacheSim of App.jsx runs: 1 (lines 203-353) or 3 (lines 1032-1223)
    cacheSize,    \* useState(3)
    numRequests,  \* useState(20)
    requests,     \* useState([])
    steps,        \* useState([])
    currentStep,  \* useState(0)
    isPlaying,    \* useState(false)
    speed,        \* useState(1), in tenths (the slider moves in steps of 0.1)
    algorithm,    \* useState('FIFO')
    intervalRef,  \* useRef(null): intervalRef.current
    timers        \* the intervals setInterval created and clearInterval has not cleared

vars == <<pc, draft, cacheSize, numRequests, requests, steps, currentStep,
          isPlaying, speed, algorithm, intervalRef, timers>>

---------------------------------------------------------------------------
(* Bounds of the model *)

\* builder calls: page ids "0".."MaxPage", sequences of length 0..MaxLen
MaxPage == 2
MaxLen == 5
\* capacities 0..MaxCache are passed to the builders and typed into the UI
MaxCache == 2
\* controller: the noise branch draws digits 0..MaxDigit; sequence lengths
\* typed into the UI are at most MaxNumRequests (draft 3 clamps what is typed
\* to 5 at least, so it generates sequences of max(5, MaxNumRequests) at most)
MaxDigit == 0
MaxNumRequests == 3

---------------------------------------------------------------------------
(* JavaScript helpers *)

Min(a, b) == IF a < b THEN a ELSE b
Max(a, b) == IF a > b THEN a ELSE b

\* Number.prototype.toString for 0..9
DigitStr == <<"0", "1", "2", "3", "4", "5", "6", "7", "8", "9">>
toString(n) == DigitStr[n + 1]

null == "null"
undefined == "undefined"
\* `undefined` where a number is read (Map.get of an absent key): every
\* comparison with it is false, and `??` replaces it
UndefinedNum == -1
\* Infinity: greater than every index
Infinity == 1000000

At(s, i) == IF i >= 0 /\ i < Len(s) THEN s[i + 1] ELSE undefined
\* mutant: only the first element is looked at
includesHead(s, x) == Len(s) > 0 /\ s[1] = x
includes(s, x) == \E k \in 1..Len(s) : s[k] = x
\* Array.prototype.indexOf: first 0-based position, -1 when absent
indexOf(s, x) ==
    IF includes(s, x)
    THEN (CHOOSE k \in 1..Len(s) : s[k] = x /\ \A j \in 1..(k - 1) : s[j] # x) - 1
    ELSE -1
\* Array.prototype.slice(from)
slice(s, from) == SubSeq(s, from + 1, Len(s))
\* Array.prototype.splice(start, 1): a negative start counts from the end
splice1(s, start) ==
    LET st == IF start < 0 THEN Max(Len(s) + start, 0) ELSE Min(start, Len(s))
    IN  IF st < Len(s)
        THEN SubSeq(s, 1, st) \o SubSeq(s, st + 2, Len(s))
        ELSE s
\* Array.prototype.shift: the removed element and what is left
shiftValue(s) == IF Len(s) = 0 THEN undefined ELSE Head(s)
shiftRest(s) == IF Len(s) = 0 THEN s ELSE Tail(s)
\* Map.prototype.get
mapGet(m, k) == IF k \in DOMAIN m THEN m[k] ELSE UndefinedNum
\* Map.prototype.set
mapSet(m, k, v) == [x \in (DOMAIN m) \cup {k} |-> IF x = k THEN v ELSE m[x]]
\* a < b on numbers or undefined
jsLess(a, b) == a # UndefinedNum /\ b # UndefinedNum /\ a < b
\* a ?? d
nullish(a, d) == IF a = UndefinedNum THEN d ELSE a

Step(cache, page, hit, evicted) ==
    [cache |-> cache, current |-> page, hit |-> hit, evicted |-> evicted]

---------------------------------------------------------------------------
(* buildFIFOSteps, lines 32-50 (the same text at 391-411 and 782-805) *)

\* mutant: a hit moves the page to the back of the queue
fifoIterMoveToBack(st, page, size) ==
    LET hit == page \in st.cacheSet
        full == Len(st.cache) >= size
        evicted == IF ~hit /\ full THEN shiftValue(st.cache) ELSE null
        cache1 == IF ~hit /\ full THEN shiftRest(st.cache) ELSE st.cache
        set1 == IF ~hit /\ full THEN st.cacheSet \ {evicted} ELSE st.cacheSet
        cache2 == IF ~hit THEN Append(cache1, page)
                  ELSE Append(splice1(cache1, indexOf(cache1, page)), page)
        set2 == IF ~hit THEN set1 \cup {page} ELSE set1
    IN  [steps |-> Append(st.steps, Step(cache2, page, hit, evicted)),
         cache |-> cache2, cacheSet |-> set2]

\* mutant: the eviction test is cache.length > cacheSize
fifoIterOffByOne(st, page, size) ==
    LET hit == page \in st.cacheSet
        full == Len(st.cache) > size
        evicted == IF ~hit /\ full THEN shiftValue(st.cache) ELSE null
        cache1 == IF ~hit /\ full THEN shiftRest(st.cache) ELSE st.cache
        set1 == IF ~hit /\ full THEN st.cacheSet \ {evicted} ELSE st.cacheSet
        cache2 == IF ~hit THEN Append(cache1, page) ELSE cache1
        set2 == IF ~hit THEN set1 \cup {page} ELSE set1
    IN  [steps |-> Append(st.steps, Step(cache2, page, hit, evicted)),
         cache |-> cache2, cacheSet |-> set2]

\* mutant: the evicted page is recorded on every miss, full or not
fifoIterAlwaysEvicted(st, page, size) ==
    LET hit == page \in st.cacheSet
        full == Len(st.cache) >= size
        evicted == IF ~hit THEN shiftValue(st.cache) ELSE null
        cache1 == IF ~hit /\ full THEN shiftRest(st.cache) ELSE st.cache
        set1 == IF ~hit /\ full THEN st.cacheSet \ {evicted} ELSE st.cacheSet
        cache2 == IF ~hit THEN Append(cache1, page) ELSE cache1
        set2 == IF ~hit THEN set1 \cup {page} ELSE set1
    IN  [steps |-> Append(st.steps, Step(cache2, page, hit, evicted)),
         cache |-> cache2, cacheSet |-> set2]

\* mutant: the newest page of the queue is evicted (pop instead of shift)
fifoIterEvictsNewest(st, page, size) ==
    LET hit == page \in st.cacheSet
        full == Len(st.cache) >= size
        evicted == IF ~hit /\ full
                   THEN (IF Len(st.cache) = 0 THEN undefined ELSE st.cache[Len(st.cache)])
                   ELSE null
        cache1 == IF ~hit /\ full /\ Len(st.cache) > 0
                  THEN SubSeq(st.cache, 1, Len(st.cache) - 1) ELSE st.cache
        set1 == IF ~hit /\ full THEN st.cacheSet \ {evicted} ELSE st.cacheSet
        cache2 == IF ~hit THEN Append(cache1, page) ELSE cache1
        set2 == IF ~hit THEN set1 \cup {page} ELSE set1
    IN  [steps |-> Append(st.steps, Step(cache2, page, hit, evicted)),
         cache |-> cache2, cacheSet |-> set2]

\* mutant: the evicted page stays in cacheSet
fifoIterStaleSet(st, page, size) ==
    LET hit == page \in st.cacheSet
        full == Len(st.cache) >= size
        evicted == IF ~hit /\ full THEN shiftValue(st.cache) ELSE null
        cache1 == IF ~hit /\ full THEN shiftRest(st.cache) ELSE st.cache
        cache2 == IF ~hit THEN Append(cache1, page) ELSE cache1
        set2 == IF ~hit THEN st.cacheSet \cup {page} ELSE st.cacheSet
    IN  [steps |-> Append(st.steps, Step(cache2, page, hit, evicted)),
         cache |-> cache2, cacheSet |-> set2]

\* mutant: a hit moves the page to the front of the queue
fifoIterHitMovesToFront(st, page, size) ==
    LET hit == page \in st.cacheSet
        full == Len(st.cache) >= size
        evicted == IF ~hit /\ full THEN shiftValue(st.cache) ELSE null
        cache1 == IF ~hit /\ full THEN shiftRest(st.cache) ELSE st.cache
        set1 == IF ~hit /\ full THEN st.cacheSet \ {evicted} ELSE st.cacheSet
        cache2 == IF ~hit THEN Append(cache1, page)
                  ELSE <<page>> \o splice1(cache1, indexOf(cache1, page))
        set2 == IF ~hit THEN set1 \cup {page} ELSE set1
    IN  [steps |-> Append(st.steps, Step(cache2, page, hit, evicted)),
         cache |-> cache2, cacheSet |-> set2]

\* one iteration of the for loop, lines 36-48
fifoIter(st, page, size) ==
    LET hit == page \in st.cacheSet
        full == Len(st.cache) >= size
        evicted == IF ~hit /\ full THEN shiftValue(st.cache) ELSE null
        cache1 == IF ~hit /\ full THEN shiftRest(st.cache) ELSE st.cache
        set1 == IF ~hit /\ full THEN st.cacheSet \ {evicted} ELSE st.cacheSet
        cache2 == IF ~hit THEN Append(cache1, page) ELSE cache1
        set2 == IF ~hit THEN set1 \cup {page} ELSE set1
    IN  [steps |-> Append(st.steps, Step(cache2, page, hit, evicted)),
         cache |-> cache2, cacheSet |-> set2]

RECURSIVE fifoLoop(_, _, _, _)
fifoLoop(reqs, size, k, st) ==
    IF k >= Len(reqs) THEN st
    ELSE fifoLoop(reqs, size, k + 1, fifoIter(st, At(reqs, k), size))

\* mutant: the loop stops one request early
buildFIFOStepsShort(reqs, size) ==
    fifoLoop(SubSeq(reqs, 1, Len(reqs) - 1), size, 0,
             [steps |-> <<>>, cache |-> <<>>, cacheSet |-> {}]).steps

buildFIFOSteps(reqs, size) ==
    fifoLoop(reqs, size, 0, [steps |-> <<>>, cache |-> <<>>, cacheSet |-> {}]).steps

---------------------------------------------------------------------------
(* buildLRUSteps, lines 53-81 (the same text at 414-445) *)

\* the scan of lines 66-72: acc holds lruPage and oldest
RECURSIVE lruScan(_, _, _, _)
lruScan(cache, lastUsed, k, acc) ==
    IF k >= Len(cache) THEN acc
    ELSE LET p == At(cache, k)
             used == mapGet(lastUsed, p)
         IN  lruScan(cache, lastUsed, k + 1,
                     IF jsLess(used, acc.oldest)
                     THEN [lruPage |-> p, oldest |-> used]
                     ELSE acc)

\* mutant: the scan keeps the most recently used page (used > oldest)
lruVictimMostRecent(cache, lastUsed) ==
    LET newest == CHOOSE p \in {cache[k] : k \in 1..Len(cache)} :
                      \A q \in {cache[k] : k \in 1..Len(cache)} :
                          mapGet(lastUsed, q) <= mapGet(lastUsed, p)
    IN  IF Len(cache) = 0 THEN undefined ELSE newest

\* mutant: the head of the cache array is evicted, whatever its index
lruVictimHead(cache, lastUsed) == At(cache, 0)

\* lines 64-72: the page the scan ends on
lruVictim(cache, lastUsed) ==
    lruScan(cache, lastUsed, 0,
            [lruPage |-> At(cache, 0), oldest |-> mapGet(lastUsed, At(cache, 0))]).lruPage

\* mutant: a hit moves the page to the back of the cache array
lruIterMovesHitToBack(st, page, i, size) ==
    LET hit == includes(st.cache, page)
        lastUsed1 == mapSet(st.lastUsed, page, i)
        full == Len(st.cache) >= size
        lruPage == lruVictim(st.cache, lastUsed1)
        evicted == IF ~hit /\ full THEN lruPage ELSE null
        cache1 == IF ~hit /\ full
                  THEN splice1(st.cache, indexOf(st.cache, lruPage))
                  ELSE st.cache
        cache2 == IF ~hit THEN Append(cache1, page)
                  ELSE Append(splice1(cache1, indexOf(cache1, page)), page)
    IN  [steps |-> Append(st.steps, Step(cache2, page, hit, evicted)),
         cache |-> cache2, lastUsed |-> lastUsed1]

\* mutant: the last-use index is written on a miss only
lruIterNoTouchOnHit(st, page, i, size) ==
    LET hit == includes(st.cache, page)
        lastUsed1 == IF hit THEN st.lastUsed ELSE mapSet(st.lastUsed, page, i)
        full == Len(st.cache) >= size
        lruPage == lruVictim(st.cache, lastUsed1)
        evicted == IF ~hit /\ full THEN lruPage ELSE null
        cache1 == IF ~hit /\ full
                  THEN splice1(st.cache, indexOf(st.cache, lruPage))
                  ELSE st.cache
        cache2 == IF ~hit THEN Append(cache1, page) ELSE cache1
    IN  [steps |-> Append(st.steps, Step(cache2, page, hit, evicted)),
         cache |-> cache2, lastUsed |-> lastUsed1]

\* mutant: every page is stamped with index 0
lruIterStampsZero(st, page, i, size) ==
    LET hit == includes(st.cache, page)
        lastUsed1 == mapSet(st.lastUsed, page, 0)
        full == Len(st.cache) >= size
        lruPage == lruVictim(st.cache, lastUsed1)
        evicted == IF ~hit /\ full THEN lruPage ELSE null
        cache1 == IF ~hit /\ full
                  THEN splice1(st.cache, indexOf(st.cache, lruPage))
                  ELSE st.cache
        cache2 == IF ~hit THEN Append(cache1, page) ELSE cache1
    IN  [steps |-> Append(st.steps, Step(cache2, page, hit, evicted)),
         cache |-> cache2, lastUsed |-> lastUsed1]

\* one iteration of the for loop, lines 57-79
lruIter(st, page, i, size) ==
    LET hit == includes(st.cache, page)
        lastUsed1 == mapSet(st.lastUsed, page, i)
        full == Len(st.cache) >= size
        lruPage == lruVictim(st.cache, lastUsed1)
        evicted == IF ~hit /\ full THEN lruPage ELSE null
        cache1 == IF ~hit /\ full
                  THEN splice1(st.cache, indexOf(st.cache, lruPage))
                  ELSE st.cache
        cache2 == IF ~hit THEN Append(cache1, page) ELSE cache1
    IN  [steps |-> Append(st.steps, Step(cache2, page, hit, evicted)),
         cache |-> cache2, lastUsed |-> lastUsed1]

RECURSIVE lruLoop(_, _, _, _)
lruLoop(reqs, size, i, st) ==
    IF i >= Len(reqs) THEN st
    ELSE lruLoop(reqs, size, i + 1, lruIter(st, At(reqs, i), i, size))

buildLRUSteps(reqs, size) ==
    lruLoop(reqs, size, 0, [steps |-> <<>>, cache |-> <<>>, lastUsed |-> <<>>]).steps

---------------------------------------------------------------------------
(* buildLRUSteps of draft 3, lines 816-850 *)

\* the scan of lines 831-836, with the `?? 0` fallbacks
RECURSIVE lruScan3(_, _, _, _)
lruScan3(cache, lastUsed, k, acc) ==
    IF k >= Len(cache) THEN acc
    ELSE LET p == At(cache, k)
         IN  lruScan3(cache, lastUsed, k + 1,
                      IF jsLess(nullish(mapGet(lastUsed, p), 0), acc.oldest)
                      THEN [lruPage |-> p, oldest |-> mapGet(lastUsed, p)]
                      ELSE acc)

\* lines 829-836
lruVictim3(cache, lastUsed) ==
    lruScan3(cache, lastUsed, 0,
             [lruPage |-> At(cache, 0),
              oldest |-> nullish(mapGet(lastUsed, At(cache, 0)), 0)]).lruPage

\* mutant: the last-use index is written on a miss only
lruIter3WritesOnMissOnly(st, page, i, size) ==
    LET hit == includes(st.cache, page)
        full == Len(st.cache) >= size
        lruPage == lruVictim3(st.cache, st.lastUsed)
        evicted == IF ~hit /\ full THEN lruPage ELSE null
        cache1 == IF ~hit /\ full
                  THEN splice1(st.cache, indexOf(st.cache, lruPage))
                  ELSE st.cache
        cache2 == IF ~hit THEN Append(cache1, page) ELSE cache1
    IN  [steps |-> Append(st.steps, Step(cache2, page, hit, evicted)),
         cache |-> cache2,
         lastUsed |-> IF hit THEN st.lastUsed ELSE mapSet(st.lastUsed, page, i)]

\* one iteration of the for loop, lines 821-847: lastUsed is written last
lruIter3(st, page, i, size) ==
    LET hit == includes(st.cache, page)
        full == Len(st.cache) >= size
        lruPage == lruVictim3(st.cache, st.lastUsed)
        evicted == IF ~hit /\ full THEN lruPage ELSE null
        cache1 == IF ~hit /\ full
                  THEN splice1(st.cache, indexOf(st.cache, lruPage))
                  ELSE st.cache
        cache2 == IF ~hit THEN Append(cache1, page) ELSE cache1
    IN  [steps |-> Append(st.steps, Step(cache2, page, hit, evicted)),
         cache |-> cache2, lastUsed |-> mapSet(st.lastUsed, page, i)]

RECURSIVE lruLoop3(_, _, _, _)
lruLoop3(reqs, size, i, st) ==
    IF i >= Len(reqs) THEN st
    ELSE lruLoop3(reqs, size, i + 1, lruIter3(st, At(reqs, i), i, size))

buildLRUSteps3(reqs, size) ==
    lruLoop3(reqs, size, 0, [steps |-> <<>>, cache |-> <<>>, lastUsed |-> <<>>]).steps

---------------------------------------------------------------------------
(* buildOPTSteps, lines 84-111 (the same text at 448-479) *)

\* mutant: a page never requested again keeps the -1 of indexOf
absoluteNextIndexNoInfinity(reqs, i, p) ==
    LET nextIndex == indexOf(slice(reqs, i + 1), p)
    IN  IF nextIndex = -1 THEN -1 ELSE nextIndex + i + 1

\* lines 96-97: requests.slice(i + 1).indexOf(p), made absolute
absoluteNextIndex(reqs, i, p) ==
    LET nextIndex == indexOf(slice(reqs, i + 1), p)
    IN  IF nextIndex = -1 THEN Infinity ELSE nextIndex + i + 1

\* the scan of lines 95-102: acc holds farthestPage and farthestIndex
RECURSIVE optScan(_, _, _, _, _)
optScan(cache, reqs, i, k, acc) ==
    IF k >= Len(cache) THEN acc
    ELSE LET p == At(cache, k)
             abs == absoluteNextIndex(reqs, i, p)
         IN  optScan(cache, reqs, i, k + 1,
                     IF abs > acc.farthestIndex
                     THEN [farthestPage |-> p, farthestIndex |-> abs]
                     ELSE acc)

\* mutant: the page used soonest is evicted
optVictimNearest(cache, reqs, i) ==
    IF Len(cache) = 0 THEN null
    ELSE CHOOSE p \in {cache[k] : k \in 1..Len(cache)} :
             \A q \in {cache[k] : k \in 1..Len(cache)} :
                 absoluteNextIndex(reqs, i, p) <= absoluteNextIndex(reqs, i, q)

\* mutant: of the pages with the farthest next use the last one scanned wins
optVictimLastFarthest(cache, reqs, i) ==
    IF Len(cache) = 0 THEN null
    ELSE LET far(k) == absoluteNextIndex(reqs, i, cache[k])
             k == CHOOSE a \in 1..Len(cache) :
                      /\ \A b \in 1..Len(cache) : far(b) <= far(a)
                      /\ \A b \in (a + 1)..Len(cache) : far(b) < far(a)
         IN  cache[k]

\* mutant: the page inserted last is evicted
optVictimLast(cache, reqs, i) ==
    IF Len(cache) = 0 THEN null ELSE cache[Len(cache)]

\* lines 93-102
optVictim(cache, reqs, i) ==
    optScan(cache, reqs, i, 0, [farthestPage |-> null, farthestIndex |-> -1]).farthestPage

\* mutant: a missed page is inserted at the front (unshift for push)
optIterInsertsAtFront(st, reqs, i, size) ==
    LET page == At(reqs, i)
        hit == includes(st.cache, page)
        full == Len(st.cache) >= size
        farthestPage == optVictim(st.cache, reqs, i)
        evicted == IF ~hit /\ full THEN farthestPage ELSE null
        cache1 == IF ~hit /\ full
                  THEN splice1(st.cache, indexOf(st.cache, farthestPage))
                  ELSE st.cache
        cache2 == IF ~hit THEN <<page>> \o cache1 ELSE cache1
    IN  [steps |-> Append(st.steps, Step(cache2, page, hit, evicted)),
         cache |-> cache2]

\* one iteration of the for loop, lines 87-109
optIter(st, reqs, i, size) ==
    LET page == At(reqs, i)
        hit == includes(st.cache, page)
        full == Len(st.cache) >= size
        farthestPage == optVictim(st.cache, reqs, i)
        evicted == IF ~hit /\ full THEN farthestPage ELSE null
        cache1 == IF ~hit /\ full
                  THEN splice1(st.cache, indexOf(st.cache, farthestPage))
                  ELSE st.cache
        cache2 == IF ~hit THEN Append(cache1, page) ELSE cache1
    IN  [steps |-> Append(st.steps, Step(cache2, page, hit, evicted)),
         cache |-> cache2]

RECURSIVE optLoop(_, _, _, _)
optLoop(reqs, size, i, st) ==
    IF i >= Len(reqs) THEN st
    ELSE optLoop(reqs, size, i + 1, optIter(st, reqs, i, size))

buildOPTSteps(reqs, size) ==
    optLoop(reqs, size, 0, [steps |-> <<>>, cache |-> <<>>]).steps

---------------------------------------------------------------------------
(* buildOPTSteps of draft 3, lines 860-896 *)

\* the scan of lines 873-885: it breaks at the first page never used again
RECURSIVE optScan3(_, _, _, _, _)
optScan3(cache, reqs, i, k, acc) ==
    IF k >= Len(cache) THEN acc
    ELSE LET p == At(cache, k)
             nextUse == indexOf(slice(reqs, i + 1), p)
         IN  IF nextUse = -1
             THEN [farthestPage |-> p, farthestIndex |-> acc.farthestIndex]
             ELSE optScan3(cache, reqs, i, k + 1,
                           IF nextUse > acc.farthestIndex
                           THEN [farthestPage |-> p, farthestIndex |-> nextUse]
                           ELSE acc)

\* lines 871-885
optVictim3(cache, reqs, i) ==
    optScan3(cache, reqs, i, 0, [farthestPage |-> "", farthestIndex |-> -1]).farthestPage

\* one iteration of the for loop, lines 864-893
optIter3(st, reqs, i, size) ==
    LET page == At(reqs, i)
        hit == includes(st.cache, page)
        full == Len(st.cache) >= size
        farthestPage == optVictim3(st.cache, reqs, i)
        evicted == IF ~hit /\ full THEN farthestPage ELSE null
        cache1 == IF ~hit /\ full
                  THEN splice1(st.cache, indexOf(st.cache, farthestPage))
                  ELSE st.cache
        cache2 == IF ~hit THEN Append(cache1, page) ELSE cache1
    IN  [steps |-> Append(st.steps, Step(cache2, page, hit, evicted)),
         cache |-> cache2]

RECURSIVE optLoop3(_, _, _, _)
optLoop3(reqs, size, i, st) ==
    IF i >= Len(reqs) THEN st
    ELSE optLoop3(reqs, size, i + 1, optIter3(st, reqs, i, size))

buildOPTSteps3(reqs, size) ==
    optLoop3(reqs, size, 0, [steps |-> <<>>, cache |-> <<>>]).steps

---------------------------------------------------------------------------
(* The builder a CacheSim calls for an algorithm: lines 226-228 in draft 1, *)
(* the switch of lines 1061-1073 in draft 3                                 *)

Algorithms == {"FIFO", "LRU", "OPT"}
Drafts == {1, 3}

callBuilder(d, alg, reqs, size) ==
    IF d = 1
    THEN CASE alg = "FIFO" -> buildFIFOSteps(reqs, size)
           [] alg = "LRU" -> buildLRUSteps(reqs, size)
           [] alg = "OPT" -> buildOPTSteps(reqs, size)
           [] OTHER -> <<>>
    ELSE CASE alg = "LRU" -> buildLRUSteps3(reqs, size)
           [] alg = "OPT" -> buildOPTSteps3(reqs, size)
           [] OTHER -> buildFIFOSteps(reqs, size)

---------------------------------------------------------------------------
(* Builder calls: the inputs are drawn in InitBuild, an action is one call *)

Pages == {toString(d) : d \in 0..MaxPage}
RefSeqs == UNION {[1..n -> Pages] : n \in 0..MaxLen}
nullRef == 0
\* the worked example: this sequence with capacity 3
ExampleSequence == <<"0", "1", "2", "0", "1", "3", "0", "3", "1", "2">>

InitBuild ==
    /\ pc = "call"
    /\ draft \in Drafts
    /\ algorithm \in Algorithms
    /\ \/ requests \in RefSeqs /\ cacheSize \in 0..MaxCache
       \/ requests = ExampleSequence /\ cacheSize = 3
    /\ numRequests = Len(requests)
    /\ steps = <<>>
    /\ currentStep = 0
    /\ isPlaying = FALSE
    /\ speed = 10
    /\ intervalRef = nullRef
    /\ timers = {}

Return(trace) ==
    /\ pc' = "return"
    /\ steps' = trace
    /\ UNCHANGED <<draft, cacheSize, numRequests, requests, currentStep,
                   isPlaying, speed, algorithm, intervalRef, timers>>

callBuildFIFO ==
    /\ pc = "call" /\ algorithm = "FIFO"
    /\ Return(buildFIFOSteps(requests, cacheSize))

callBuildLRU ==
    /\ pc = "call" /\ algorithm = "LRU" /\ draft = 1
    /\ Return(buildLRUSteps(requests, cacheSize))

callBuildOPT ==
    /\ pc = "call" /\ algorithm = "OPT" /\ draft = 1
    /\ Return(buildOPTSteps(requests, cacheSize))

callBuildLRU3 ==
    /\ pc = "call" /\ algorithm = "LRU" /\ draft = 3
    /\ Return(buildLRUSteps3(requests, cacheSize))

callBuildOPT3 ==
    /\ pc = "call" /\ algorithm = "OPT" /\ draft = 3
    /\ Return(buildOPTSteps3(requests, cacheSize))

NextBuild ==
    \/ callBuildFIFO
    \/ callBuildLRU
    \/ callBuildOPT
    \/ callBuildLRU3
    \/ callBuildOPT3

SpecBuild == InitBuild /\ [][NextBuild]_vars

---------------------------------------------------------------------------
(* Calls of the two LRU builders with one page more than the capacities,  *)
(* so that the larger of two neighbouring capacities evicts as well       *)

MaxLRUCache == 2
MaxLRULen == 5
LRUPages == {toString(d) : d \in 0..(MaxLRUCache + 1)}

InitLRU ==
    /\ pc = "call"
    /\ draft \in Drafts
    /\ algorithm = "LRU"
    /\ requests \in UNION {[1..n -> LRUPages] : n \in 0..MaxLRULen}
    /\ cacheSize \in 1..MaxLRUCache
    /\ numRequests = Len(requests)
    /\ steps = <<>>
    /\ currentStep = 0
    /\ isPlaying = FALSE
    /\ speed = 10
    /\ intervalRef = nullRef
    /\ timers = {}

NextLRU ==
    \/ callBuildLRU
    \/ callBuildLRU3

SpecLRU == InitLRU /\ [][NextLRU]_vars

---------------------------------------------------------------------------
(* generateRequests, lines 17-29 (the same text at 374-388 and 757-771) *)

\* mutant: the base has floor(length / 3) page ids
baseFloor(length) ==
    [k \in 1..(length \div 3) |-> toString((k - 1) % 10)]
\* line 18: the locality base, ceil(length / 3) page ids cycling through 0-9
base(length) ==
    [k \in 1..((length + 2) \div 3) |-> toString((k - 1) % 10)]
\* line 23: Math.floor(Math.random() * base.length), 0 for an empty base
baseDraws(length) == 0..Max(0, Len(base(length)) - 1)
\* line 25: Math.floor(Math.random() * 10), cut at MaxDigit
noiseDraws == 0..Min(9, MaxDigit)
\* what one iteration of the loop can push (lines 22-26)
pushed(length) ==
    {At(base(length), k) : k \in baseDraws(length)} \cup {toString(d) : d \in noiseDraws}
\* every array the function can return
generateRequests(length) ==
    IF length <= 0 THEN {<<>>} ELSE [1..length -> pushed(length)]

---------------------------------------------------------------------------
(* generateRequests, one iteration of its loop at a time: every outcome of *)
(* the two branches, the noise branch with all ten digits                 *)

MaxGenLength == 3

InitGen ==
    /\ pc = "generate"
    /\ numRequests \in 0..MaxGenLength
    /\ requests = <<>>
    /\ draft = 1
    /\ cacheSize = 3
    /\ steps = <<>>
    /\ currentStep = 0
    /\ isPlaying = FALSE
    /\ speed = 10
    /\ algorithm = "FIFO"
    /\ intervalRef = nullRef
    /\ timers = {}

\* lines 22-23: r < 0.7
pushLocality ==
    /\ pc = "generate" /\ Len(requests) < numRequests
    /\ \E k \in baseDraws(numRequests) :
           requests' = Append(requests, At(base(numRequests), k))
    /\ UNCHANGED <<pc, draft, cacheSize, numRequests, steps, currentStep, isPlaying,
                   speed, algorithm, intervalRef, timers>>

\* lines 24-26: r >= 0.7
pushNoise ==
    /\ pc = "generate" /\ Len(requests) < numRequests
    /\ \E d \in 0..9 : requests' = Append(requests, toString(d))
    /\ UNCHANGED <<pc, draft, cacheSize, numRequests, steps, currentStep, isPlaying,
                   speed, algorithm, intervalRef, timers>>

\* line 28, when the loop condition of line 20 fails
returnRequests ==
    /\ pc = "generate" /\ ~(Len(requests) < numRequests)
    /\ pc' = "generated"
    /\ UNCHANGED <<draft, cacheSize, numRequests, requests, steps, currentStep,
                   isPlaying, speed, algorithm, intervalRef, timers>>

NextGen ==
    \/ pushLocality
    \/ pushNoise
    \/ returnRequests

SpecGen == InitGen /\ [][NextGen]_vars

---------------------------------------------------------------------------
(* The traces a CacheSim can hold.  A CacheSim calls the builders only on  *)
(* arrays generateRequests returned, with the capacity its state holds, so *)
(* their results are tabulated once for the lengths and capacities within  *)
(* the bounds; buildSteps reads the table.                                 *)

\* lengths a CacheSim can generate: draft 3 clamps the length to 5 at least
GeneratedLengths == 0..Max(5, MaxNumRequests)
\* capacities a CacheSim can hold: useState(3) and what is typed
HeldCapacities == 1..Max(3, MaxCache)
GeneratedRequests == UNION {generateRequests(n) : n \in GeneratedLengths}

\* the table; the comparison has TLC enumerate it once, when the definition
\* is first evaluated, instead of calling the builder again at each lookup
builtSteps ==
    LET table == [d \in Drafts |-> [alg \in Algorithms |-> [size \in HeldCapacities |->
                     [reqs \in GeneratedRequests |-> callBuilder(d, alg, reqs, size)]]]]
    IN  IF table = table THEN table ELSE <<>>

buildSteps(d, alg, reqs, size) == builtSteps[d][alg][size][reqs]

---------------------------------------------------------------------------
(* CacheSim: timers and the play effect                                    *)
(* (lines 235-249 in draft 1, 1120-1138 in draft 3)                        *)

\* setInterval: a handle no live interval has
newTimerId(tms) ==
    CHOOSE n \in 1..(Cardinality(tms) + 1) :
        /\ n \notin {t.id : t \in tms}
        /\ \A m \in 1..(n - 1) : m \in {t.id : t \in tms}
\* mutant: clearInterval cancels nothing
clearIntervalNoOp(tms, handle) == tms
\* clearInterval(handle)
clearInterval(tms, handle) == {t \in tms : t.id # handle}
\* 1000 / speed, the speed being kept in tenths
period(spd) == 10000 \div spd

\* mutant: the effect has no cleanup and starts an interval beside the old
playEffectNoCleanup(playing, spd, len, ref, tms) ==
    LET id == newTimerId(tms)
    IN  IF playing
        THEN [ref |-> id,
              timers |-> tms \cup {[id |-> id, len |-> len, period |-> period(spd)]}]
        ELSE [ref |-> ref,
              timers |-> IF ref # nullRef THEN clearInterval(tms, ref) ELSE tms]

\* The effect after a render in which one of its dependencies changed: the
\* previous run's cleanup (lines 248, 1135-1137), then the body.  The new
\* interval's callback closes over the rendered steps (their length).
playEffect(playing, spd, len, ref, tms) ==
    LET cleaned == clearInterval(tms, ref)
        id == newTimerId(cleaned)
    IN  IF playing
        THEN [ref |-> id,
              timers |-> cleaned \cup {[id |-> id, len |-> len, period |-> period(spd)]}]
        ELSE [ref |-> ref,
              timers |-> IF ref # nullRef THEN clearInterval(cleaned, ref) ELSE cleaned]

\* Commit of a handler's state updates followed by the play effect, which
\* runs when isPlaying, speed or steps changed (draft 1: the steps array was
\* replaced; draft 3: steps.length changed).
Commit(playing, spd, newSteps, replaced) ==
    LET depsChanged ==
            \/ playing # isPlaying
            \/ spd # speed
            \/ (draft = 1 /\ replaced)
            \/ (draft = 3 /\ Len(newSteps) # Len(steps))
        eff == playEffect(playing, spd, Len(newSteps), intervalRef, timers)
    IN  /\ isPlaying' = playing
        /\ speed' = spd
        /\ steps' = newSteps
        /\ intervalRef' = IF depsChanged THEN eff.ref ELSE intervalRef
        /\ timers' = IF depsChanged THEN eff.timers ELSE timers

SpeedInputs == {10, 20}

Init ==
    /\ pc = "mounted"
    /\ draft \in Drafts
    /\ cacheSize = 3
    /\ numRequests = 20
    /\ requests = <<>>
    /\ steps = <<>>
    /\ currentStep = 0
    /\ isPlaying = FALSE
    /\ speed = 10
    /\ algorithm = "FIFO"
    /\ intervalRef = nullRef
    /\ timers = {}

Mounted(d) == pc = "mounted" /\ draft = d
\* draft 1 renders SimulationControls only with a trace (line 300)
ControlsShown == draft = 3 \/ Len(steps) > 0

---------------------------------------------------------------------------
(* CacheSim of draft 1, lines 203-353 *)

\* The build effect (lines 223-232) after a render that changed algorithm,
\* cacheSize, numRequests or requests: it returns early without requests,
\* else it replaces the trace, resets the cursor and stops playing.
buildEffect(alg, size, reqs, cursor, playing) ==
    IF Len(reqs) = 0
    THEN /\ currentStep' = cursor
         /\ Commit(playing, speed, steps, FALSE)
    ELSE /\ currentStep' = 0
         /\ \E built \in {buildSteps(1, alg, reqs, size)} :
                Commit(FALSE, speed, built, TRUE)

\* mutant: runSimulation and the build effect leave the cursor where it is
runSimulationKeepsCursor ==
    /\ Mounted(1)
    /\ numRequests <= MaxNumRequests
    /\ \E reqs \in generateRequests(numRequests) :
           /\ requests' = reqs
           /\ currentStep' = currentStep
           /\ \E built \in {buildSteps(1, algorithm, reqs, cacheSize)} :
                  Commit(FALSE, speed, built, TRUE)
    /\ UNCHANGED <<pc, draft, cacheSize, numRequests, algorithm>>

\* lines 215-220, then the build effect
runSimulation ==
    /\ Mounted(1)
    /\ numRequests <= MaxNumRequests
    /\ \E reqs \in generateRequests(numRequests) :
           /\ requests' = reqs
           /\ buildEffect(algorithm, cacheSize, reqs, 0, FALSE)
    /\ UNCHANGED <<pc, draft, cacheSize, numRequests, algorithm>>

\* line 265, then the build effect
setAlgorithm ==
    /\ Mounted(1)
    /\ \E val \in Algorithms \ {algorithm} :
           /\ algorithm' = val
           /\ buildEffect(val, cacheSize, requests, currentStep, isPlaying)
    /\ UNCHANGED <<pc, draft, cacheSize, numRequests, requests>>

\* line 281 (parseInt of what was typed), then the build effect
setCacheSize ==
    /\ Mounted(1)
    /\ \E val \in (1..MaxCache) \ {cacheSize} :
           /\ cacheSize' = val
           /\ buildEffect(algorithm, val, requests, currentStep, isPlaying)
    /\ UNCHANGED <<pc, draft, numRequests, requests, algorithm>>

\* line 291 (parseInt of what was typed), then the build effect
setNumRequests ==
    /\ Mounted(1)
    /\ \E val \in (0..MaxNumRequests) \ {numRequests} :
           /\ numRequests' = val
           /\ buildEffect(algorithm, cacheSize, requests, currentStep, isPlaying)
    /\ UNCHANGED <<pc, draft, cacheSize, requests, algorithm>>

\* line 303; the button is Play only while not playing (line 171)
onPlay ==
    /\ Mounted(1) /\ ControlsShown /\ ~isPlaying
    /\ Commit(TRUE, speed, steps, FALSE)
    /\ UNCHANGED <<pc, draft, cacheSize, numRequests, requests, currentStep, algorithm>>

\* mutant: pausing also rewinds the cursor
setIsPlayingFalseAndRewind ==
    /\ Commit(FALSE, speed, steps, FALSE)
    /\ currentStep' = 0
    /\ UNCHANGED <<pc, draft, cacheSize, numRequests, requests, algorithm>>

\* setIsPlaying(false) as an event handler's whole body (lines 304 and 1106)
setIsPlayingFalse ==
    /\ Commit(FALSE, speed, steps, FALSE)
    /\ UNCHANGED <<pc, draft, cacheSize, numRequests, requests, currentStep, algorithm>>

\* line 304; the button is Pause only while playing (line 171)
onPause ==
    /\ Mounted(1) /\ ControlsShown /\ isPlaying
    /\ setIsPlayingFalse

\* mutant: the cursor is not held at the last index
onStepNoClamp ==
    /\ Mounted(1) /\ ControlsShown
    /\ currentStep' = currentStep + 1
    /\ UNCHANGED <<pc, draft, cacheSize, numRequests, requests, steps, isPlaying,
                   speed, algorithm, intervalRef, timers>>

\* line 305
onStep ==
    /\ Mounted(1) /\ ControlsShown
    /\ currentStep' = Min(currentStep + 1, Len(steps) - 1)
    /\ UNCHANGED <<pc, draft, cacheSize, numRequests, requests, steps, isPlaying,
                   speed, algorithm, intervalRef, timers>>

\* mutant: Reset is wired to runSimulation
onResetRerun ==
    /\ ControlsShown
    /\ runSimulation

\* line 306
onReset ==
    /\ Mounted(1) /\ ControlsShown
    /\ currentStep' = 0
    /\ UNCHANGED <<pc, draft, cacheSize, numRequests, requests, steps, isPlaying,
                   speed, algorithm, intervalRef, timers>>

\* mutant: the callback only advances, it never stops at the end
tickNeverStops ==
    /\ Mounted(1)
    /\ \E t \in timers :
           /\ currentStep < t.len - 1
           /\ currentStep' = currentStep + 1
    /\ UNCHANGED <<pc, draft, cacheSize, numRequests, requests, steps, isPlaying,
                   speed, algorithm, intervalRef, timers>>

\* mutant: the callback advances up to the length of the trace
tickOvershoots ==
    /\ Mounted(1)
    /\ \E t \in timers :
           IF currentStep < t.len
           THEN /\ currentStep' = currentStep + 1
                /\ UNCHANGED <<steps, isPlaying, speed, intervalRef, timers>>
           ELSE /\ currentStep' = currentStep
                /\ LET cleared == clearInterval(timers, intervalRef)
                       eff == playEffect(FALSE, speed, Len(steps), intervalRef, cleared)
                   IN  /\ isPlaying' = FALSE
                       /\ timers' = IF isPlaying THEN eff.timers ELSE cleared
                       /\ intervalRef' = intervalRef
                /\ UNCHANGED <<steps, speed>>
    /\ UNCHANGED <<pc, draft, cacheSize, numRequests, requests, algorithm>>

\* the interval callback, lines 237-244: t is the interval that fires
tick ==
    /\ Mounted(1)
    /\ \E t \in timers :
           IF currentStep < t.len - 1
           THEN /\ currentStep' = currentStep + 1
                /\ UNCHANGED <<steps, isPlaying, speed, intervalRef, timers>>
           ELSE /\ currentStep' = currentStep
                /\ LET cleared == clearInterval(timers, intervalRef)
                       eff == playEffect(FALSE, speed, Len(steps), intervalRef, cleared)
                   IN  /\ isPlaying' = FALSE
                       /\ timers' = IF isPlaying THEN eff.timers ELSE cleared
                       /\ intervalRef' = intervalRef
                /\ UNCHANGED <<steps, speed>>
    /\ UNCHANGED <<pc, draft, cacheSize, numRequests, requests, algorithm>>

---------------------------------------------------------------------------
(* CacheSim of draft 3, lines 1032-1223 *)

\* lines 1057-1079
runSimulation3 ==
    /\ numRequests <= Max(5, MaxNumRequests)
    /\ \E reqs \in generateRequests(numRequests) :
           /\ requests' = reqs
           /\ currentStep' = 0
           /\ \E built \in {buildSteps(3, algorithm, reqs, cacheSize)} :
                  Commit(FALSE, speed, built, TRUE)
    /\ UNCHANGED <<pc, draft, cacheSize, numRequests, algorithm>>

\* the Run Simulation button, line 1189
runSimulationClick ==
    /\ Mounted(3)
    /\ runSimulation3

\* lines 1112-1114: reset reruns the simulation
reset ==
    /\ Mounted(3) /\ ControlsShown
    /\ runSimulation3

\* line 1150: no effect depends on the algorithm
setAlgorithm3 ==
    /\ Mounted(3)
    /\ \E val \in Algorithms \ {algorithm} : algorithm' = val
    /\ UNCHANGED <<pc, draft, cacheSize, numRequests, requests, steps, currentStep,
                   isPlaying, speed, intervalRef, timers>>

\* line 1170: clamped to 1..10
setCacheSize3 ==
    /\ Mounted(3)
    /\ \E typed \in 0..MaxCache :
           /\ Max(1, Min(10, typed)) # cacheSize
           /\ cacheSize' = Max(1, Min(10, typed))
    /\ UNCHANGED <<pc, draft, numRequests, requests, steps, currentStep, isPlaying,
                   speed, algorithm, intervalRef, timers>>

\* line 1184: clamped to 5..100
setNumRequests3 ==
    /\ Mounted(3)
    /\ \E typed \in 0..Max(5, MaxNumRequests) :
           /\ Max(5, Min(100, typed)) # numRequests
           /\ numRequests' = Max(5, Min(100, typed))
    /\ UNCHANGED <<pc, draft, cacheSize, requests, steps, currentStep, isPlaying,
                   speed, algorithm, intervalRef, timers>>

\* mutant: a step moves the cursor two positions when it can
stepForwardSkipsOne ==
    /\ Mounted(3) /\ ControlsShown
    /\ IF currentStep + 1 >= Len(steps)
       THEN /\ currentStep' = currentStep
            /\ Commit(FALSE, speed, steps, FALSE)
       ELSE /\ currentStep' = Min(currentStep + 2, Len(steps) - 1)
            /\ UNCHANGED <<steps, isPlaying, speed, intervalRef, timers>>
    /\ UNCHANGED <<pc, draft, cacheSize, numRequests, requests, algorithm>>

\* mutant: every step stops playing
stepForwardAlwaysPauses ==
    /\ Mounted(3) /\ ControlsShown
    /\ currentStep' = IF currentStep + 1 >= Len(steps) THEN currentStep ELSE currentStep + 1
    /\ Commit(FALSE, speed, steps, FALSE)
    /\ UNCHANGED <<pc, draft, cacheSize, numRequests, requests, algorithm>>

\* lines 1085-1093
stepForward ==
    /\ Mounted(3) /\ ControlsShown
    /\ IF currentStep + 1 >= Len(steps)
       THEN /\ currentStep' = currentStep
            /\ Commit(FALSE, speed, steps, FALSE)
       ELSE /\ currentStep' = currentStep + 1
            /\ UNCHANGED <<steps, isPlaying, speed, intervalRef, timers>>
    /\ UNCHANGED <<pc, draft, cacheSize, numRequests, requests, algorithm>>

\* lines 1098-1100; the button is Play only while not playing (line 981)
play ==
    /\ Mounted(3) /\ ControlsShown /\ ~isPlaying
    /\ Commit(TRUE, speed, steps, FALSE)
    /\ UNCHANGED <<pc, draft, cacheSize, numRequests, requests, currentStep, algorithm>>

\* lines 1105-1107; the button is Pause only while playing (line 981)
pause ==
    /\ Mounted(3) /\ ControlsShown /\ isPlaying
    /\ setIsPlayingFalse

\* the interval callback, lines 1122-1131: t is the interval that fires
tick3 ==
    /\ Mounted(3)
    /\ \E t \in timers :
           IF currentStep + 1 >= t.len
           THEN /\ currentStep' = currentStep
                /\ LET cleared == clearInterval(timers, intervalRef)
                       eff == playEffect(FALSE, speed, Len(steps), intervalRef, cleared)
                   IN  /\ isPlaying' = FALSE
                       /\ timers' = IF isPlaying THEN eff.timers ELSE cleared
                       /\ intervalRef' = intervalRef
                /\ UNCHANGED <<steps, speed>>
           ELSE /\ currentStep' = currentStep + 1
                /\ UNCHANGED <<steps, isPlaying, speed, intervalRef, timers>>
    /\ UNCHANGED <<pc, draft, cacheSize, numRequests, requests, algorithm>>

---------------------------------------------------------------------------
(* Both drafts *)

\* mutant: changing the speed drops the trace
setSpeedDropsTrace ==
    /\ pc = "mounted" /\ ControlsShown
    /\ \E val \in SpeedInputs \ {speed} : Commit(isPlaying, val, <<>>, TRUE)
    /\ UNCHANGED <<pc, draft, cacheSize, numRequests, requests, currentStep, algorithm>>

\* mutant: changing the speed also stops playing
setSpeedStopsPlaying ==
    /\ pc = "mounted" /\ ControlsShown
    /\ \E val \in SpeedInputs \ {speed} : Commit(FALSE, val, steps, FALSE)
    /\ UNCHANGED <<pc, draft, cacheSize, numRequests, requests, currentStep, algorithm>>

\* the speed slider, lines 158-164 and 966-972
setSpeed ==
    /\ pc = "mounted" /\ ControlsShown
    /\ \E val \in SpeedInputs \ {speed} : Commit(isPlaying, val, steps, FALSE)
    /\ UNCHANGED <<pc, draft, cacheSize, numRequests, requests, currentStep, algorithm>>

\* the component goes away: the play effect's cleanup runs (lines 248,
\* 1135-1137) and the component's state and ref are dropped; only intervals
\* that were not cleared outlive it
unmount ==
    /\ pc = "mounted"
    /\ pc' = "unmounted"
    /\ timers' = clearInterval(timers, intervalRef)
    /\ cacheSize' = 3
    /\ numRequests' = 20
    /\ requests' = <<>>
    /\ steps' = <<>>
    /\ currentStep' = 0
    /\ isPlaying' = FALSE
    /\ speed' = 10
    /\ algorithm' = "FIFO"
    /\ intervalRef' = nullRef
    /\ UNCHANGED draft

---------------------------------------------------------------------------
(* The statistics handed to StatsDashboard: lines 251-253 in draft 1,     *)
(* 1141-1142 and 1216 in draft 3                                          *)

\* Array.prototype.slice(from, to)
sliceTo(s, from, to) == SubSeq(s, from + 1, Min(to, Len(s)))
\* filter((s) => s.hit === wanted).length
countHit(s, wanted) == Cardinality({k \in 1..Len(s) : s[k].hit = wanted})

\* line 251, and line 1216 in draft 3
totalRequests == currentStep + 1
\* mutant: the slice stops before the cursor
totalFaultsBeforeCursor == countHit(sliceTo(steps, 0, currentStep), FALSE)
\* line 252
totalFaults == countHit(sliceTo(steps, 0, totalRequests), FALSE)
\* line 253
totalHits == totalRequests - totalFaults
\* line 1141
totalHits3 == countHit(sliceTo(steps, 0, currentStep + 1), TRUE)
\* line 1142
totalFaults3 == (currentStep + 1) - totalHits3

Next ==
    \/ runSimulation
    \/ setAlgorithm
    \/ setCacheSize
    \/ setNumRequests
    \/ onPlay
    \/ onPause
    \/ onStep
    \/ onReset
    \/ tick
    \/ runSimulationClick
    \/ reset
    \/ setAlgorithm3
    \/ setCacheSize3
    \/ setNumRequests3
    \/ stepForward
    \/ play
    \/ pause
    \/ tick3
    \/ setSpeed
    \/ unmount

Spec == Init /\ [][Next]_vars

---------------------------------------------------------------------------
(* Auto-advance left alone: a CacheSim that is playing on a trace, as     *)
(* onPlay/play and the play effect leave it, with no user event after     *)
(* that.  A live interval keeps firing, hence the weak fairness of the    *)
(* callbacks.                                                             *)

InitPlaying ==
    /\ pc = "mounted"
    /\ draft \in Drafts
    /\ algorithm \in Algorithms
    /\ cacheSize \in HeldCapacities
    /\ requests \in GeneratedRequests
    /\ Len(requests) >= (IF draft = 3 THEN 5 ELSE 1)
    /\ numRequests = Len(requests)
    /\ steps = buildSteps(draft, algorithm, requests, cacheSize)
    /\ currentStep \in 0..(Len(steps) - 1)
    /\ isPlaying = TRUE
    /\ speed \in SpeedInputs
    /\ intervalRef = newTimerId({})
    /\ timers = {[id |-> intervalRef, len |-> Len(steps), period |-> period(speed)]}

NextAuto ==
    \/ tick
    \/ tick3

SpecAuto == InitPlaying /\ [][NextAuto]_vars /\ WF_vars(tick) /\ WF_vars(tick3)

---------------------------------------------------------------------------
(* Properties of the builders, checked under SpecBuild on the returned trace *)

\* the resident set before request i (1-based position in the trace)
Before(i) == IF i = 1 THEN <<>> ELSE steps[i - 1].cache
Elems(s) == {s[k] : k \in 1..Len(s)}
\* an evictedPage that the consumers read as absent (line 118: step.evicted &&)
Absent(e) == e \in {null, undefined, ""}
Returned == pc = "return" /\ cacheSize >= 1
MissWhileFull(i) == ~steps[i].hit /\ Len(Before(i)) = cacheSize

\* C1: the trace has one step per request, in order: Len(trace) = N and
\* step i records requests[i] as its requested page (all three builders,
\* both drafts, every capacity >= 1).
C1_OneStepPerRequest ==
    Returned =>
        /\ Len(steps) = Len(requests)
        /\ \A i \in 1..Len(steps) : steps[i].current = requests[i]

C1_Witness ==
    /\ Returned /\ algorithm = "OPT" /\ draft = 1
    /\ Len(requests) = 3 /\ Len(steps) = 3
    /\ steps[3].current = requests[3] /\ requests[3] # requests[1]

\* C2: every step's resident set holds at most cacheSize pages.
C2_ResidentWithinCapacity ==
    Returned => \A i \in 1..Len(steps) : Len(steps[i].cache) <= cacheSize

C2_Witness ==
    /\ Returned /\ cacheSize = 2
    /\ \E i \in 1..Len(steps) :
           /\ MissWhileFull(i)
           /\ Len(steps[i].cache) = cacheSize

\* C3: evictedPage is present exactly at the misses that found the resident
\* set holding cacheSize pages; at hits and at misses into a cache that is
\* not full it is absent.
C3_EvictedIffMissWhileFull ==
    Returned =>
        \A i \in 1..Len(steps) : (~Absent(steps[i].evicted)) <=> MissWhileFull(i)

C3_Witness ==
    /\ Returned /\ cacheSize = 2
    /\ \E i, j, k \in 1..Len(steps) :
           /\ MissWhileFull(i) /\ ~Absent(steps[i].evicted)
           /\ steps[j].hit /\ Absent(steps[j].evicted)
           /\ ~steps[k].hit /\ Len(Before(k)) = 1 /\ Absent(steps[k].evicted)

\* the position of the miss that began page q's residency as of request i
ResidentSince(q, i) ==
    CHOOSE j \in 1..(i - 1) :
        /\ steps[j].current = q /\ ~steps[j].hit
        /\ \A k \in (j + 1)..(i - 1) : ~(steps[k].current = q /\ ~steps[k].hit)

\* C4: FIFO evicts by insertion order only: at a miss-while-full step of
\* buildFIFOSteps the evicted page is the head of the queue, it is the
\* resident page whose residency began earliest (hits in between do not
\* count), and the new resident set is the old one without its head,
\* followed by the requested page.
C4_FIFOEvictsOldestInserted ==
    (Returned /\ algorithm = "FIFO") =>
        \A i \in 1..Len(steps) :
            MissWhileFull(i) =>
                /\ steps[i].evicted = Head(Before(i))
                /\ steps[i].cache = Append(Tail(Before(i)), steps[i].current)
                /\ \A q \in Elems(Before(i)) :
                       ResidentSince(steps[i].evicted, i) <= ResidentSince(q, i)

\* the evicted page was hit after a later-inserted page came in
C4_Witness ==
    /\ Returned /\ algorithm = "FIFO" /\ cacheSize = 2
    /\ \E i \in 1..Len(steps) : \E h \in 1..(i - 1) :
           /\ MissWhileFull(i)
           /\ steps[h].hit /\ steps[h].current = steps[i].evicted
           /\ steps[h - 1].current # steps[h].current
           /\ steps[i].evicted = Head(Before(i))

\* the position of the last request of page q before request i
LastRequestBefore(q, i) ==
    CHOOSE j \in 1..(i - 1) :
        requests[j] = q /\ \A k \in (j + 1)..(i - 1) : requests[k] # q

\* C5: at a miss-while-full step i of buildLRUSteps (either draft) the
\* evicted page is the resident page whose most recent request before i is
\* the earliest.
C5_LRUEvictsLeastRecentlyUsed ==
    (Returned /\ algorithm = "LRU") =>
        \A i \in 1..Len(steps) :
            MissWhileFull(i) =>
                /\ steps[i].evicted \in Elems(Before(i))
                /\ \A q \in Elems(Before(i)) :
                       LastRequestBefore(steps[i].evicted, i) <= LastRequestBefore(q, i)

\* the victim is not the page inserted first
C5_Witness ==
    /\ Returned /\ algorithm = "LRU" /\ cacheSize = 2
    /\ \E i \in 1..Len(steps) :
           /\ MissWhileFull(i)
           /\ steps[i].evicted # Head(Before(i))
           /\ steps[i].evicted \in Elems(Before(i))

\* the position of the next request of page q after request i; a page that
\* is not requested again lies beyond the end of the sequence
NextRequestAfter(q, i) ==
    IF \E j \in (i + 1)..Len(requests) : requests[j] = q
    THEN CHOOSE j \in (i + 1)..Len(requests) :
             requests[j] = q /\ \A k \in (i + 1)..(j - 1) : requests[k] # q
    ELSE Len(requests) + 1

\* C6: at a miss-while-full step i of buildOPTSteps (either draft) the
\* evicted page is a resident page whose next request after i is the
\* farthest, never requested again counting as farthest of all.
C6_OPTEvictsFarthestNextUse ==
    (Returned /\ algorithm = "OPT") =>
        \A i \in 1..Len(steps) :
            MissWhileFull(i) =>
                /\ steps[i].evicted \in Elems(Before(i))
                /\ \A q \in Elems(Before(i)) :
                       NextRequestAfter(q, i) <= NextRequestAfter(steps[i].evicted, i)

\* the victim is requested again, later than the other resident page
C6_Witness ==
    /\ Returned /\ algorithm = "OPT" /\ cacheSize = 2
    /\ \E i \in 1..Len(steps) :
           /\ MissWhileFull(i)
           /\ steps[i].evicted \in Elems(Before(i))
           /\ NextRequestAfter(steps[i].evicted, i) <= Len(requests)

---------------------------------------------------------------------------
(* Properties of the playback controller, checked under Spec *)

\* the Reset button: onReset in draft 1, reset in draft 3
ResetStep == onReset \/ reset
\* the Step button: onStep in draft 1, stepForward in draft 3
StepStep == onStep \/ stepForward
BelowLast == currentStep < Len(steps) - 1
ParametersUnchanged == UNCHANGED <<cacheSize, numRequests, algorithm, speed>>

\* C8: reset() from any state returns the cursor to 0 and stops
\* auto-advance: after it the controller is not playing and no interval is
\* left to advance the cursor.
C8_ResetStopsAutoAdvance ==
    [][ResetStep => (currentStep' = 0 /\ isPlaying' = FALSE /\ timers' = {})]_vars

PlayStep == onPlay \/ play
\* the interval callback of either draft
TickStep == tick \/ tick3
\* the cursor rests on the last index of a trace
AtLast == Len(steps) > 0 /\ currentStep = Len(steps) - 1

\* C11: play() with the cursor already on the last index of the trace has
\* no effect: the controller does not become playing and no interval is
\* started.
C11_PlayAtFinishedHasNoEffect ==
    [][(PlayStep /\ AtLast) => (isPlaying' = FALSE /\ timers' = timers)]_vars

\* C12: play() while the trace is empty has no effect: the playing status
\* stays false and no interval is started.
C12_PlayOnEmptyTraceHasNoEffect ==
    [][(PlayStep /\ Len(steps) = 0) => (isPlaying' = FALSE /\ timers' = {})]_vars

\* C13: the tick that moves the cursor onto the last index also stops the
\* interval and leaves playing in that same transition.
C13_TickOntoLastIndexStops ==
    [][(TickStep /\ currentStep' # currentStep /\ currentStep' = Len(steps) - 1)
           => (isPlaying' = FALSE /\ timers' = {})]_vars

\* generate: the Generate Requests button of draft 1 (line 295), the Run
\* Simulation button of draft 3 (line 1189)
GenerateStep == runSimulation \/ runSimulationClick

C15_NoTimerUnlessPlaying ==
    /\ ~isPlaying => timers = {}
    /\ \A t \in timers : t.id = intervalRef /\ t.len = Len(steps)

\* not playing after an interval had been started: it is gone
C15_Witness ==
    /\ pc = "mounted" /\ ~isPlaying /\ Len(steps) > 0
    /\ intervalRef # nullRef /\ timers = {}

\* C16: no reachable state shows a trace together with a capacity, length
\* or policy other than the ones it was built with: the trace shown is the
\* one the current policy's builder computes from the sequence with the
\* current capacity, and its length is the current length.
C16_TraceBuiltWithCurrentParameters ==
    (pc = "mounted" /\ Len(steps) > 0) =>
        /\ Len(steps) = numRequests
        /\ steps = buildSteps(draft, algorithm, requests, cacheSize)

\* the Pause button: onPause in draft 1, pause in draft 3
PauseStep == onPause \/ pause

\* C17: pause() while playing stops auto-advance (not playing, no interval
\* pending) and leaves the cursor, the trace, the sequence and the
\* parameters as they are; while not playing, setIsPlaying(false) can
\* change nothing.
C17_PauseStopsAndKeepsCursor ==
    [][ /\ PauseStep => /\ isPlaying' = FALSE /\ timers' = {}
                        /\ UNCHANGED <<currentStep, steps, requests>>
                        /\ ParametersUnchanged
        /\ (pc = "mounted" /\ ~isPlaying) => ~ENABLED <<setIsPlayingFalse>>_vars ]_vars

\* playing away from the start, where Pause acts
C17_Witness ==
    /\ pc = "mounted" /\ isPlaying /\ timers # {} /\ currentStep > 0
    /\ ENABLED <<PauseStep>>_vars

\* C18: while not playing, each step() on a trace moves the cursor from c
\* to min(c + 1, N - 1) and changes nothing else, and at the last index no
\* step() changes the state; from cursor 0 the cursor after k steps is
\* therefore min(k, N - 1) and the last index is reached once.
C18_StepsFromReadyReachLastIndexOnce ==
    [][ /\ (StepStep /\ ~isPlaying /\ Len(steps) > 0) =>
               /\ currentStep' = Min(currentStep + 1, Len(steps) - 1)
               /\ UNCHANGED <<pc, draft, cacheSize, numRequests, requests, steps,
                              isPlaying, speed, algorithm, intervalRef, timers>>
        /\ (pc = "mounted" /\ ~isPlaying /\ AtLast) => ~ENABLED <<StepStep>>_vars ]_vars

\* not playing on the last index of a trace of two steps or more
C18_Witness ==
    /\ pc = "mounted" /\ ~isPlaying /\ Len(steps) >= 2 /\ AtLast

C20_InvalidCapacityGivesNoUndefinedShape ==
    (pc = "return" /\ cacheSize < 1) =>
        \A i \in 1..Len(steps) :
            /\ Len(steps[i].cache) <= cacheSize
            /\ steps[i].evicted \in Pages \cup {null}

\* C21: with a non-empty trace and the cursor c on one of its positions the
\* statistics are: hits = the number of steps up to and including c that
\* are hits, faults = the number of those that are misses, and
\* total = c + 1 = hits + faults (both drafts).
C21_StatsCountPrefix ==
    (pc = "mounted" /\ Len(steps) > 0 /\ currentStep \in 0..(Len(steps) - 1)) =>
        LET hits == IF draft = 1 THEN totalHits ELSE totalHits3
            faults == IF draft = 1 THEN totalFaults ELSE totalFaults3
        IN  /\ hits = Cardinality({i \in 0..currentStep : steps[i + 1].hit})
            /\ faults = Cardinality({i \in 0..currentStep : ~steps[i + 1].hit})
            /\ totalRequests = currentStep + 1
            /\ totalRequests = hits + faults

\* the cursor inside a trace, with a hit and a miss up to it and a miss
\* after it
C21_Witness ==
    /\ pc = "mounted" /\ Len(steps) > 2
    /\ currentStep > 0 /\ currentStep < Len(steps) - 1
    /\ \E i, j \in 0..currentStep : steps[i + 1].hit /\ ~steps[j + 1].hit
    /\ \E k \in (currentStep + 1)..(Len(steps) - 1) : ~steps[k + 1].hit

\* the alphabet of page ids
Alphabet == {toString(d) : d \in 0..9}

\* C22 (checked under SpecGen): for a length >= 1 generateRequests returns
\* exactly `length` elements, each one of "0".."9" and never undefined,
\* whatever the draws of the locality and the noise branch; the same holds
\* of every array of generateRequests(length) as the controller draws it.
C22_GeneratedLengthAndAlphabet ==
    (pc = "generated" /\ numRequests >= 1) =>
        /\ Len(requests) = numRequests
        /\ \A k \in 1..Len(requests) : requests[k] \in Alphabet
        /\ \A reqs \in generateRequests(numRequests) :
               /\ Len(reqs) = numRequests
               /\ \A k \in 1..Len(reqs) : reqs[k] \in Alphabet

\* a returned array with a page of the base and a page only the noise
\* branch can give
C22_Witness ==
    /\ pc = "generated" /\ numRequests >= 2
    /\ \E k \in 1..Len(requests) : requests[k] \in Elems(base(numRequests))
    /\ \E k \in 1..Len(requests) : requests[k] \notin Elems(base(numRequests))

\* C23 (checked under SpecBuild): for the sequence 0,1,2,0,1,3,0,3,1,2 with
\* capacity 3 buildFIFOSteps gives miss, miss, miss, hit, hit, miss at the
\* first six positions, no eviction in the first five steps and page 0
\* evicted at the sixth.
C23_FIFOExampleFirstSixSteps ==
    (pc = "return" /\ algorithm = "FIFO" /\ requests = ExampleSequence /\ cacheSize = 3) =>
        /\ Len(steps) = 10
        /\ [i \in 1..6 |-> steps[i].hit] = <<FALSE, FALSE, FALSE, TRUE, TRUE, FALSE>>
        /\ \A i \in 1..5 : steps[i].evicted = null
        /\ steps[6].evicted = "0"
        /\ steps[6].cache = <<"1", "2", "3">>

\* buildFIFOSteps has returned the trace of the example
C23_Witness ==
    /\ pc = "return" /\ algorithm = "FIFO"
    /\ requests = ExampleSequence /\ cacheSize = 3 /\ Len(steps) = Len(ExampleSequence)

\* C24 (checked under SpecAuto): from playing on a non-empty trace, with no
\* user event and the interval firing, the cursor eventually rests on the
\* last index with playback stopped: not playing and no interval pending.
C24_PlaybackEventuallyStops ==
    (isPlaying /\ Len(steps) > 0) ~>
        (~isPlaying /\ timers = {} /\ currentStep = Len(steps) - 1)

\* playback has stopped on the last index of a trace of two steps or more
C24_Witness ==
    /\ pc = "mounted" /\ ~isPlaying /\ timers = {} /\ intervalRef # nullRef
    /\ Len(steps) >= 2 /\ AtLast

\* C25 (SpecBuild): no step's resident set holds a page twice, for all
\* three policies of both drafts.
C25_ResidentSetHasNoDuplicates ==
    Returned =>
        \A i \in 1..Len(steps) :
            \A a, b \in 1..Len(steps[i].cache) :
                steps[i].cache[a] = steps[i].cache[b] => a = b

\* a hit on a page that is resident but not at the head of the cache
C25_Witness ==
    /\ Returned /\ algorithm = "LRU"
    /\ \E i \in 1..Len(steps) :
           /\ steps[i].hit /\ Len(steps[i].cache) >= 2
           /\ steps[i].cache[1] # steps[i].current

\* the state of buildFIFOSteps after its first j iterations
fifoStateAfter(j) ==
    fifoLoop(SubSeq(requests, 1, j), cacheSize, 0,
             [steps |-> <<>>, cache |-> <<>>, cacheSet |-> {}])

\* C26 (SpecBuild): the hit flag of step i is true exactly when
\* requests[i] is in the resident set recorded at step i - 1 (empty before
\* the first step), for all policies; in buildFIFOSteps cacheSet holds
\* exactly the pages of the queue after every iteration.
C26_HitIffResidentBefore ==
    Returned =>
        /\ \A i \in 1..Len(steps) : steps[i].hit <=> (requests[i] \in Elems(Before(i)))
        /\ algorithm = "FIFO" =>
               \A j \in 0..Len(requests) :
                   fifoStateAfter(j).cacheSet = Elems(fifoStateAfter(j).cache)

\* FIFO: a page is requested again after its eviction (a miss), and some
\* step is a hit
C26_Witness ==
    /\ Returned /\ algorithm = "FIFO"
    /\ \E i, j \in 1..Len(steps) :
           i < j /\ steps[i].evicted = requests[j] /\ ~steps[j].hit
    /\ \E i \in 1..Len(steps) : steps[i].hit

\* C27 (SpecBuild): in buildFIFOSteps a hit changes nothing: the resident
\* set of a hit step is the one of the step before, in the same order, and
\* no page is evicted.
C27_FIFOHitChangesNothing ==
    (Returned /\ algorithm = "FIFO") =>
        \A i \in 1..Len(steps) :
            steps[i].hit => (steps[i].cache = Before(i) /\ steps[i].evicted = null)

\* a FIFO hit on a page that is not at the back of the queue
C27_Witness ==
    /\ Returned /\ algorithm = "FIFO"
    /\ \E i \in 1..Len(steps) :
           /\ steps[i].hit /\ Len(Before(i)) >= 2
           /\ Before(i)[Len(Before(i))] # steps[i].current

\* positions of the resident set before step i whose page is never
\* requested after step i
NeverAgain(i) ==
    {k \in 1..Len(Before(i)) :
        \A j \in (i + 1)..Len(requests) : requests[j] # Before(i)[k]}

\* C28 (SpecBuild): at a miss-while-full step of buildOPTSteps (either
\* draft) with two or more resident pages that are never requested again,
\* the evicted page is the first of them in the order of the cache array.
C28_OPTTieBreakFirstInScanOrder ==
    (Returned /\ algorithm = "OPT") =>
        \A i \in 1..Len(steps) :
            (MissWhileFull(i) /\ Cardinality(NeverAgain(i)) >= 2) =>
                \E k \in NeverAgain(i) :
                    /\ \A m \in NeverAgain(i) : k <= m
                    /\ steps[i].evicted = Before(i)[k]

\* an OPT eviction with two resident pages that are never requested again
C28_Witness ==
    /\ Returned /\ algorithm = "OPT"
    /\ \E i \in 1..Len(steps) :
           MissWhileFull(i) /\ Cardinality(NeverAgain(i)) >= 2

\* the trace of each policy for the sequence and capacity of the state
TraceOf(alg) == callBuilder(draft, alg, requests, cacheSize)
\* the first position with an eviction, Len + 1 when there is none
FirstEviction(t) ==
    IF \E i \in 1..Len(t) : t[i].evicted # null
    THEN CHOOSE i \in 1..Len(t) :
             t[i].evicted # null /\ \A j \in 1..(i - 1) : t[j].evicted = null
    ELSE Len(t) + 1

\* C29 (SpecBuild): for the same sequence and capacity the FIFO, LRU and
\* OPT traces are equal at every step before the first eviction, the first
\* eviction is at the same position in all three, and with at most
\* `capacity` distinct pages the three traces are equal throughout and
\* evict nothing.
C29_PoliciesAgreeBeforeFirstEviction ==
    Returned =>
        LET f == TraceOf("FIFO")
            l == TraceOf("LRU")
            o == TraceOf("OPT")
            e == FirstEviction(f)
        IN  /\ Len(l) = Len(f) /\ Len(o) = Len(f)
            /\ FirstEviction(l) = e /\ FirstEviction(o) = e
            /\ \A i \in 1..Min(e - 1, Len(f)) : f[i] = l[i] /\ l[i] = o[i]
            /\ Cardinality(Elems(requests)) <= cacheSize =>
                   (f = l /\ l = o /\ e = Len(f) + 1)

\* a sequence with an eviction after which LRU differs from FIFO and OPT
C29_Witness ==
    /\ Returned
    /\ FirstEviction(TraceOf("FIFO")) <= Len(requests)
    /\ TraceOf("FIFO") # TraceOf("LRU")
    /\ TraceOf("LRU") # TraceOf("OPT")

\* the playback operations: play, pause, step, reset, the tick, setSpeed
PlaybackStep == PlayStep \/ PauseStep \/ StepStep \/ ResetStep \/ TickStep \/ setSpeed
\* s without the page e
Without(s, e) == SelectSeq(s, LAMBDA x : x # e)
\* every snapshot is the resident set before its step, untouched by a hit,
\* and on a miss without the evicted page and with the requested page at
\* the end: what the cache held right after that request
SnapshotsAsProcessed ==
    \A i \in 1..Len(steps) :
        steps[i].cache = IF steps[i].hit
                         THEN Before(i)
                         ELSE Append(Without(Before(i), steps[i].evicted), steps[i].current)

C31_LRUBuildersAgree ==
    Returned =>
        /\ buildLRUSteps(requests, cacheSize) = buildLRUSteps3(requests, cacheSize)
        /\ algorithm = "LRU" => steps = buildLRUSteps(requests, cacheSize)
        /\ algorithm = "LRU" => steps = buildLRUSteps3(requests, cacheSize)

\* draft 3's LRU builder evicts a page that is not the head of the cache
\* array, after a hit
C31_Witness ==
    /\ Returned /\ algorithm = "LRU" /\ draft = 3
    /\ \E i, j \in 1..Len(steps) :
           /\ j < i /\ steps[j].hit
           /\ MissWhileFull(i) /\ steps[i].evicted # Before(i)[1]

\* C32 (SpecBuild): the two OPT builders (lines 84-111, full scan with
\* Infinity for a page never requested again; lines 860-896, break at the
\* first such page) evict the same page at every miss-while-full step and
\* return the same trace for every sequence and capacity >= 1.
C32_OPTBuildersAgree ==
    Returned =>
        /\ buildOPTSteps(requests, cacheSize) = buildOPTSteps3(requests, cacheSize)
        /\ algorithm = "OPT" =>
               \A i \in 1..Len(steps) :
                   MissWhileFull(i) =>
                       /\ steps[i].evicted = optVictim(Before(i), requests, i - 1)
                       /\ steps[i].evicted = optVictim3(Before(i), requests, i - 1)

\* an OPT eviction where draft 3's scan breaks at a page never requested
\* again that is not the head of the cache array
C32_Witness ==
    /\ Returned /\ algorithm = "OPT" /\ draft = 3
    /\ \E i \in 1..Len(steps) :
           /\ MissWhileFull(i) /\ NeverAgain(i) # {} /\ 1 \notin NeverAgain(i)

\* the number of miss steps of a trace
Misses(t) == Cardinality({i \in 1..Len(t) : ~t[i].hit})

\* C33 (SpecBuild): for every sequence and capacity >= 1 the OPT trace has
\* no more miss steps than the FIFO trace and no more than the LRU trace.
C33_OPTHasFewestMisses ==
    Returned =>
        /\ Misses(TraceOf("OPT")) <= Misses(TraceOf("FIFO"))
        /\ Misses(TraceOf("OPT")) <= Misses(TraceOf("LRU"))
        /\ algorithm = "OPT" => steps = TraceOf("OPT")

\* a sequence on which OPT misses strictly less often than FIFO and LRU
C33_Witness ==
    /\ Returned /\ algorithm = "OPT"
    /\ Misses(steps) < Misses(TraceOf("FIFO"))
    /\ Misses(steps) < Misses(TraceOf("LRU"))

\* the distinct pages requested after the last request of requests[k]
\* within requests[1..i]
LaterPages(i, k) ==
    {requests[m] : m \in {n \in (k + 1)..i : requests[n] # requests[k]}}
\* the min(C, d) most recently requested distinct pages of requests[1..i]
MostRecent(i) ==
    {requests[k] : k \in {n \in 1..i : Cardinality(LaterPages(i, n)) < cacheSize}}

\* C34 (SpecBuild): after every step i of buildLRUSteps with capacity
\* C >= 1 the resident pages are the min(C, d) most recently requested
\* distinct pages of requests[0..i], d the number of distinct pages so far.
C34_LRUKeepsMostRecentPages ==
    (Returned /\ algorithm = "LRU") =>
        \A i \in 1..Len(steps) :
            /\ Elems(steps[i].cache) = MostRecent(i)
            /\ Cardinality(MostRecent(i)) =
                   Min(cacheSize, Cardinality({requests[k] : k \in 1..i}))

\* LRU keeps a page FIFO would have evicted: the evicted page is not the
\* head of the cache array
C34_Witness ==
    /\ Returned /\ algorithm = "LRU" /\ draft = 1
    /\ \E i \in 1..Len(steps) :
           MissWhileFull(i) /\ steps[i].evicted # Before(i)[1]

\* the loop state of the LRU builder of the state's draft after j requests
lruStateAfter(j) ==
    IF draft = 1
    THEN lruLoop(SubSeq(requests, 1, j), cacheSize, 0,
                 [steps |-> <<>>, cache |-> <<>>, lastUsed |-> <<>>])
    ELSE lruLoop3(SubSeq(requests, 1, j), cacheSize, 0,
                  [steps |-> <<>>, cache |-> <<>>, lastUsed |-> <<>>])

\* C35 (SpecBuild): at every miss-while-full step of buildLRUSteps (either
\* draft) every resident page has a last-use index in the map and distinct
\* resident pages have distinct indexes, so the scan's minimum is unique.
C35_LRULastUseDefinedAndDistinct ==
    (Returned /\ algorithm = "LRU") =>
        \A i \in 1..Len(steps) :
            MissWhileFull(i) =>
                LET st == lruStateAfter(i - 1)
                IN  /\ st.cache = Before(i)
                    /\ \A p \in Elems(st.cache) : mapGet(st.lastUsed, p) # UndefinedNum
                    /\ \A p, q \in Elems(st.cache) :
                           p # q => mapGet(st.lastUsed, p) # mapGet(st.lastUsed, q)

\* an LRU eviction out of two resident pages, one of them hit before
C35_Witness ==
    /\ Returned /\ algorithm = "LRU"
    /\ \E i \in 1..Len(steps) :
           /\ MissWhileFull(i) /\ Len(Before(i)) >= 2
           /\ \E j \in 1..(i - 1) : steps[j].hit

\* C36 (SpecBuild): for all three policies and capacity >= 1 the requested
\* page is resident after every step and on a miss is the last element of
\* the resident set; an evicted page was resident at the previous step, is
\* not resident at the current step and is not the requested page.
C36_RequestedResidentEvictedGone ==
    Returned =>
        \A i \in 1..Len(steps) :
            /\ steps[i].current \in Elems(steps[i].cache)
            /\ ~steps[i].hit => steps[i].cache[Len(steps[i].cache)] = steps[i].current
            /\ steps[i].evicted # null =>
                   /\ steps[i].evicted \in Elems(Before(i))
                   /\ steps[i].evicted \notin Elems(steps[i].cache)
                   /\ steps[i].evicted # steps[i].current

\* an OPT miss into a cache that keeps another page, with an eviction
C36_Witness ==
    /\ Returned /\ algorithm = "OPT" /\ draft = 1
    /\ \E i \in 1..Len(steps) :
           /\ ~steps[i].hit /\ steps[i].evicted # null /\ Len(steps[i].cache) >= 2

\* C37 (Spec): in every reachable state with a non-empty trace the cursor
\* is an index of the trace, 0 <= currentStep <= Len(steps) - 1, whatever
\* the interleaving of ticks with play, pause, step, reset, setSpeed,
\* generate and parameter changes.
C37_CursorWithinTrace ==
    (pc = "mounted" /\ Len(steps) > 0) =>
        (currentStep >= 0 /\ currentStep <= Len(steps) - 1)

\* the interval is still live with the cursor on the last index of a trace
\* of two or more steps
C37_Witness ==
    /\ pc = "mounted" /\ isPlaying /\ timers # {}
    /\ Len(steps) >= 2 /\ currentStep = Len(steps) - 1

\* C38 (Spec): at most one auto-advance interval is live at any time; an
\* interval is started only with every earlier one cancelled, and a tick
\* advances the cursor by one position at most.
C38_AtMostOneTimer ==
    [][ /\ Cardinality(timers) <= 1
        /\ Cardinality(timers') <= 1
        /\ \A t \in timers' \ timers : timers' = {t}
        /\ TickStep => (currentStep' = currentStep \/ currentStep' = currentStep + 1) ]_vars

\* draft 1 plays with one interval live and the speed can be changed
C38_Witness ==
    /\ Mounted(1) /\ isPlaying /\ Cardinality(timers) = 1
    /\ ENABLED <<setSpeed>>_vars
    /\ ENABLED <<tick>>_vars

\* the LRU trace of the state's sequence with one more page of capacity
LRUWithOneMore == callBuilder(draft, "LRU", requests, cacheSize + 1)

\* C39 (SpecLRU): for every sequence and capacity k >= 1 the pages resident
\* at each step of the LRU trace with capacity k are resident at that step
\* with capacity k + 1, and the LRU trace with capacity k + 1 has no more
\* miss steps.
C39_LRUInclusion ==
    (Returned /\ algorithm = "LRU") =>
        /\ Len(LRUWithOneMore) = Len(steps)
        /\ \A i \in 1..Len(steps) :
               Elems(steps[i].cache) \subseteq Elems(LRUWithOneMore[i].cache)
        /\ Misses(LRUWithOneMore) <= Misses(steps)

\* both capacities evict, and the larger one misses less often
C39_Witness ==
    /\ Returned /\ algorithm = "LRU" /\ cacheSize >= 2
    /\ \E i \in 1..Len(steps) : LRUWithOneMore[i].evicted # null
    /\ Misses(LRUWithOneMore) < Misses(steps)

\* C40 (Spec): setSpeed changes only the speed and with it the period of
\* the interval: cursor, trace, sequence, playing status and parameters
\* stay; while playing the running interval is replaced by one with the
\* new period over the same trace, while not playing none is started.
C40_SetSpeedChangesOnlyPeriod ==
    [][ setSpeed =>
          /\ UNCHANGED <<currentStep, steps, requests, isPlaying,
                         cacheSize, numRequests, algorithm, pc>>
          /\ speed' # speed
          /\ isPlaying =>
                 /\ Cardinality(timers) = 1
                 /\ timers' = {[id |-> intervalRef', len |-> Len(steps),
                                period |-> period(speed')]}
                 /\ \A t \in timers : t.period # period(speed')
          /\ ~isPlaying => timers' = {} ]_vars

\* playing inside the trace at the faster speed, with the interval of that
\* speed
C40_Witness ==
    /\ pc = "mounted" /\ isPlaying /\ speed = 20
    /\ currentStep > 0 /\ currentStep < Len(steps) - 1
    /\ timers = {[id |-> intervalRef, len |-> Len(steps), period |-> period(20)]}

====
